---- MODULE Spec2Model ----
(***************************************************************************)
(* Model of monte-carlo-simulation.py: a Streamlit script that reads the   *)
(* simulation parameters, runs a Monte Carlo loop over three project       *)
(* delivery methods and recommends the one with the best mean score.       *)
(*                                                                         *)
(* The script is modelled statement by statement; pc is its position.      *)
(* Numbers the script computes by float division are kept as exact         *)
(* fractions <<numerator, denominator>> in lowest terms.                   *)
(***************************************************************************)
EXTENDS Integers, Sequences, FiniteSets

VARIABLES
    pc,             \* position of the script
    err,            \* the exception that ended the script, or NoError
    iterations,     \* line 12
    time_weight,    \* line 15
    cost_weight,    \* line 16
    quality_weight, \* line 17
    weights,        \* lines 20-24
    methods,        \* lines 57-61
    results,        \* line 65
    mi,             \* index in methods.items() of the method of line 70
    params,         \* loop variable of line 70
    trial,          \* iterations of line 75 completed for this method
    scores,         \* line 71
    times,          \* line 72
    costs,          \* line 73
    time,           \* line 76
    cost,           \* line 77
    quality,        \* line 78
    norm_time,      \* line 91
    norm_cost,      \* line 92
    norm_quality,   \* line 93
    call,           \* arguments of one call of normalize (line 84)
    ret             \* what that call returned

vars == <<pc, err, iterations, time_weight, cost_weight, quality_weight, weights,
          methods, results, mi, params, trial, scores, times, costs, time, cost,
          quality, norm_time, norm_cost, norm_quality, call, ret>>

----------------------------------------------------------------------------
(* Bounds of the model *)

\* how many steps of 100 above the minimum the trial count may be set to
MaxIterSteps == 1
\* how many of the nine criteria the user changes from the widget defaults
MaxEdits == 1
\* raw values, minima and maxima handed to normalize (SpecNormalize)
MaxVal == 4

(* Program constants *)
MinIterations == 100
IterStep == 100
WeightDen == 100

WeightChoices == {20, 60}

----------------------------------------------------------------------------
(* Values *)

\* a Python name not yet bound
Unbound == <<>>
NoDraw == 0 - 1
NoError == [type |-> "", line |-> 0]

RECURSIVE GCD(_, _)
GCD(a, b) == IF b = 0 THEN a ELSE GCD(b, a % b)

Abs(x) == IF x < 0 THEN 0 - x ELSE x

\* the fraction n/d, d # 0, in lowest terms with a positive denominator
Rat(n, d) ==
    LET g == GCD(Abs(n), Abs(d))
        s == IF d < 0 THEN 0 - 1 ELSE 1
    IN  <<(s * n) \div g, (s * d) \div g>>

One == <<1, 1>>

\* Python's a / b
Div(a, b) == IF b = 0 THEN <<a, 0>> ELSE Rat(a, b)

IsNumber(r) == Len(r) = 2 /\ r[2] > 0
InUnit(r) == IsNumber(r) /\ 0 <= r[1] /\ r[1] <= r[2]

Range(s) == {s[i] : i \in 1..Len(s)}
PyMin(s) == CHOOSE x \in Range(s) : \A y \in Range(s) : x <= y
PyMax(s) == CHOOSE x \in Range(s) : \A y \in Range(s) : x >= y

----------------------------------------------------------------------------
(* Configuration *)

Methods == <<"DBB", "DB", "CMAR">>
Criteria == {"time", "cost", "quality"}

\* the value= defaults of get_user_input
Defaults == [time |-> <<10, 15, 25>>, cost |-> <<4, 7, 10>>, quality |-> <<70, 85, 95>>]

DefaultMethods == [i \in 1..Len(Methods) |-> Defaults]

\* what the user may type into the three boxes of one criterion
EditTriples(c) ==
    LET v == {Defaults[c][1], Defaults[c][2], Defaults[c][3]}
    IN  v \X v \X v

RECURSIVE MethodConfigs(_)
MethodConfigs(k) ==
    IF k = 0 THEN {DefaultMethods}
    ELSE LET prev == MethodConfigs(k - 1)
         IN  prev \cup UNION {{[m EXCEPT ![i][c] = t] :
                                  m \in prev, i \in 1..Len(Methods), t \in EditTriples(c)} :
                               c \in Criteria}

IterationChoices == {MinIterations + k * IterStep : k \in 0..MaxIterSteps}

\* np.random.triangular(left, mode, right) raises ValueError for these
TriangularRaises(p) == p[1] > p[2] \/ p[2] > p[3] \/ p[1] = p[3]
\* sample points of the support [left, right] of the distribution
TriangularSupport(p) == {p[1], p[2], p[3]}

----------------------------------------------------------------------------
(* normalize, lines 84-88 *)

normalize_NoGuard(value, min_val, max_val, invert) ==
    LET norm_value == Div(value - min_val, max_val - min_val)
    IN  IF invert THEN <<norm_value[2] - norm_value[1], norm_value[2]>> ELSE norm_value

normalize(value, min_val, max_val, invert) ==
    IF max_val = min_val THEN One
    ELSE LET norm_value == Div(value - min_val, max_val - min_val)
         IN  IF invert THEN <<norm_value[2] - norm_value[1], norm_value[2]>> ELSE norm_value

----------------------------------------------------------------------------
(* The script, lines 12-93.  Line 93 raises in the first trial of the first *)
(* method of every run, so no statement after it is ever executed.          *)

ConfigBlank ==
    /\ iterations = 0
    /\ time_weight = 0
    /\ cost_weight = 0
    /\ quality_weight = 0
    /\ weights = Unbound
    /\ methods = Unbound

LoopBlank ==
    /\ results = <<>>
    /\ mi = 0
    /\ params = Unbound
    /\ trial = 0
    /\ scores = <<>>
    /\ times = <<>>
    /\ costs = <<>>
    /\ time = NoDraw
    /\ cost = NoDraw
    /\ quality = NoDraw
    /\ norm_time = Unbound
    /\ norm_cost = Unbound
    /\ norm_quality = Unbound

CallBlank ==
    /\ call = Unbound
    /\ ret = Unbound

Init ==
    /\ pc = "sidebar"
    /\ err = NoError
    /\ ConfigBlank
    /\ LoopBlank
    /\ CallBlank

callVars == <<call, ret>>
configVars == <<iterations, time_weight, cost_weight, quality_weight, weights, methods>>
normVars == <<norm_time, norm_cost, norm_quality>>

Raise(type, line) ==
    /\ pc' = "error"
    /\ err' = [type |-> type, line |-> line]

\* lines 12-17
ReadSidebar ==
    /\ pc = "sidebar"
    /\ iterations' \in IterationChoices
    /\ time_weight' \in WeightChoices
    /\ cost_weight' \in WeightChoices
    /\ quality_weight' \in WeightChoices
    /\ pc' = "weights"
    /\ UNCHANGED <<err, weights, methods, results, mi, params, trial, scores, times,
                   costs, time, cost, quality, normVars, callVars>>

\* lines 20-24
NormalizeWeights ==
    /\ pc = "weights"
    /\ weights' = [time |-> Div(time_weight, WeightDen),
                   cost |-> Div(cost_weight, WeightDen),
                   quality |-> Div(quality_weight, WeightDen)]
    /\ pc' = "methods"
    /\ UNCHANGED <<err, iterations, time_weight, cost_weight, quality_weight, methods,
                   results, mi, params, trial, scores, times, costs, time, cost,
                   quality, normVars, callVars>>

\* lines 57-65
DefineMethods ==
    /\ pc = "methods"
    /\ methods' \in MethodConfigs(MaxEdits)
    /\ results' = <<>>
    /\ mi' = 0
    /\ pc' = "for_method"
    /\ UNCHANGED <<err, iterations, time_weight, cost_weight, quality_weight, weights,
                   params, trial, scores, times, costs, time, cost, quality, normVars, callVars>>

\* lines 70-73
StartMethod ==
    /\ pc = "for_method"
    /\ mi < Len(Methods)
    /\ mi' = mi + 1
    /\ params' = methods[mi + 1]
    /\ scores' = <<>>
    /\ times' = <<>>
    /\ costs' = <<>>
    /\ trial' = 0
    /\ pc' = "for_trial"
    /\ UNCHANGED <<err, configVars, results, time, cost, quality, normVars,
                   callVars>>

\* line 75
ForTrial ==
    /\ pc = "for_trial"
    /\ pc' = IF trial < iterations THEN "draw_time" ELSE "append_result"
    /\ UNCHANGED <<err, configVars, results, mi, params, trial, scores, times, costs,
                   time, cost, quality, normVars, callVars>>

\* line 76
DrawTime ==
    /\ pc = "draw_time"
    /\ IF TriangularRaises(params.time)
       THEN Raise("ValueError", 76) /\ UNCHANGED time
       ELSE /\ time' \in TriangularSupport(params.time)
            /\ pc' = "draw_cost"
            /\ UNCHANGED err
    /\ UNCHANGED <<configVars, results, mi, params, trial, scores, times, costs, cost,
                   quality, normVars, callVars>>

\* line 77
DrawCost ==
    /\ pc = "draw_cost"
    /\ IF TriangularRaises(params.cost)
       THEN Raise("ValueError", 77) /\ UNCHANGED cost
       ELSE /\ cost' \in TriangularSupport(params.cost)
            /\ pc' = "draw_quality"
            /\ UNCHANGED err
    /\ UNCHANGED <<configVars, results, mi, params, trial, scores, times, costs, time,
                   quality, normVars, callVars>>

\* line 78
DrawQuality ==
    /\ pc = "draw_quality"
    /\ IF TriangularRaises(params.quality)
       THEN Raise("ValueError", 78) /\ UNCHANGED quality
       ELSE /\ quality' \in TriangularSupport(params.quality)
            /\ pc' = "append_raw"
            /\ UNCHANGED err
    /\ UNCHANGED <<configVars, results, mi, params, trial, scores, times, costs, time,
                   cost, normVars, callVars>>

\* lines 80-81
AppendRaw ==
    /\ pc = "append_raw"
    /\ times' = Append(times, time)
    /\ costs' = Append(costs, cost)
    /\ pc' = "norm_time"
    /\ UNCHANGED <<err, configVars, results, mi, params, trial, scores, time, cost,
                   quality, normVars, callVars>>

\* the value line 91 binds to norm_time when the draws of this method so far are ts
NormTimeOf(ts, t) == normalize(t, PyMin(ts), PyMax(ts), TRUE)

\* line 91
NormTime ==
    /\ pc = "norm_time"
    /\ norm_time' = NormTimeOf(times, time)
    /\ pc' = "norm_cost"
    /\ UNCHANGED <<err, configVars, results, mi, params, trial, scores, times, costs,
                   time, cost, quality, norm_cost, norm_quality, callVars>>

\* line 92
NormCost ==
    /\ pc = "norm_cost"
    /\ norm_cost' = normalize(cost, PyMin(costs), PyMax(costs), TRUE)
    /\ pc' = "norm_quality"
    /\ UNCHANGED <<err, configVars, results, mi, params, trial, scores, times, costs,
                   time, cost, quality, norm_time, norm_quality, callVars>>

\* line 93: quality is the float of line 78, and min() of a float raises TypeError
\* before normalize is entered; norm_quality stays unbound
NormQuality ==
    /\ pc = "norm_quality"
    /\ Raise("TypeError", 93)
    /\ UNCHANGED <<configVars, results, mi, params, trial, scores, times, costs, time,
                   cost, quality, normVars, callVars>>

Next ==
    \/ ReadSidebar
    \/ NormalizeWeights
    \/ DefineMethods
    \/ StartMethod
    \/ ForTrial
    \/ DrawTime
    \/ DrawCost
    \/ DrawQuality
    \/ AppendRaw
    \/ NormTime
    \/ NormCost
    \/ NormQuality

Spec == Init /\ [][Next]_vars

----------------------------------------------------------------------------
(* normalize (lines 84-88) applied to arbitrary arguments *)

InitNormalize ==
    /\ pc = "call_normalize"
    /\ err = NoError
    /\ ConfigBlank
    /\ LoopBlank
    /\ call \in [value : 0..MaxVal, min_val : 0..MaxVal, max_val : 0..MaxVal,
                 invert : BOOLEAN]
    /\ ret = Unbound

CallNormalize ==
    /\ pc = "call_normalize"
    /\ ret' = normalize(call.value, call.min_val, call.max_val, call.invert)
    /\ pc' = "returned"
    /\ UNCHANGED <<err, configVars, results, mi, params, trial, scores, times, costs,
                   time, cost, quality, normVars, call>>

NextNormalize == CallNormalize

SpecNormalize == InitNormalize /\ [][NextNormalize]_vars

----------------------------------------------------------------------------
(* Properties *)

InLoop == pc \in {"for_trial", "draw_time", "draw_cost", "draw_quality", "append_raw",
                  "norm_time", "norm_cost", "norm_quality", "error"}

\* the calls of np.random.triangular that have returned in the trial under way
DrawnThisTrial ==
    CASE pc \in {"for_trial", "draw_time"} -> 0
      [] pc = "draw_cost" -> 1
      [] pc = "draw_quality" -> 2
      [] pc = "error" /\ err.line = 76 -> 0
      [] pc = "error" /\ err.line = 77 -> 1
      [] pc = "error" /\ err.line = 78 -> 2
      [] OTHER -> 3

\* the calls of np.random.triangular that have returned since the script started
SamplesDrawn ==
    IF InLoop THEN 3 * iterations * (mi - 1) + 3 * trial + DrawnThisTrial ELSE 0

ValidCriterion(p) == p[1] <= p[2] /\ p[2] <= p[3]
NonDegenerate(p) == ValidCriterion(p) /\ p[1] < p[3]
PointMass(p) == p[1] = p[2] /\ p[2] = p[3]
AllNonDegenerate(m) == \A i \in 1..Len(m) : \A c \in Criteria : NonDegenerate(m[i][c])

RatAdd(a, b) == Rat(a[1] * b[2] + b[1] * a[2], a[2] * b[2])

\* C1: every error of a run is raised while no sample has been drawn yet.
C1_ErrorsBeforeFirstSample == pc = "error" => SamplesDrawn = 0

\* line 93 of the trial under way has been executed
Line93Done == pc = "error" /\ err.line = 93

\* C3: in a trial of a method whose criteria are valid and non-degenerate, norm_time,
\* norm_cost and norm_quality are all numbers in [0,1] once line 93 has run.
C3_NormalizedInUnit ==
    (Line93Done /\ \A c \in Criteria : NonDegenerate(params[c])) =>
        InUnit(norm_time) /\ InUnit(norm_cost) /\ InUnit(norm_quality)

\* C4: the weights the script holds after lines 20-24 sum to 1.
C4_WeightsSumToOne ==
    pc \notin {"sidebar", "weights"} =>
        RatAdd(RatAdd(weights.time, weights.cost), weights.quality) = One

Reached(c) ==
    CASE c = "time" -> InLoop /\ pc \notin {"for_trial", "draw_time"}
      [] c = "cost" -> InLoop /\ DrawnThisTrial >= 1 /\ pc # "draw_cost"
      [] c = "quality" -> InLoop /\ DrawnThisTrial >= 2 /\ pc # "draw_quality"

DrawOf(c) == CASE c = "time" -> time [] c = "cost" -> cost [] c = "quality" -> quality
LineOf(c) == CASE c = "time" -> 76 [] c = "cost" -> 77 [] c = "quality" -> 78

\* C6: the sampler call on a criterion whose min, most likely and max all equal v
\* returns v and raises no error.
C6_PointMassSampled ==
    \A c \in Criteria :
        (Reached(c) /\ PointMass(params[c])) =>
            /\ ~(pc = "error" /\ err.line = LineOf(c))
            /\ DrawOf(c) = params[c][1]

\* C7: normalize called with max_val = min_val returns 1, whatever the value and the
\* direction, and is a number (no division by zero).
C7_DegenerateNormalizeIsOne ==
    (pc = "returned" /\ call.max_val = call.min_val) => ret = One /\ IsNumber(ret)

C7_Witness ==
    /\ pc = "returned"
    /\ call.max_val = call.min_val
    /\ call.value # call.min_val
    /\ ~call.invert
    /\ ret = One

\* What every run has in common: the loop body is entered once at most, so times and
\* costs never hold more than one draw, no score is appended, no result record is
\* built and the loop of line 75 is never left normally.
FirstTrialOnly ==
    /\ mi <= 1
    /\ trial = 0
    /\ Len(times) <= 1
    /\ Len(costs) <= 1
    /\ scores = <<>>
    /\ results = <<>>
    /\ pc # "append_result"

\* C10: with valid non-degenerate criteria for every method and at least 100 trials,
\* the run does not end in an error.
C10_RunEndsNormally ==
    (pc \notin {"sidebar", "weights", "methods"} /\ AllNonDegenerate(methods)
        /\ iterations >= MinIterations) => pc # "error"

====
